---- MODULE Spec2Model ----
(***************************************************************************)
(* Model of scripts/devmetrics_hook.py: one hook invocation reads an event *)
(* from stdin, loads the persisted state file, runs one of three handlers  *)
(* (SessionStart, Stop, PostToolUse), possibly scans the JSONL logs and    *)
(* posts one event, possibly saves the state file, and exits.              *)
(***************************************************************************)
EXTENDS Integers, Sequences, FiniteSets, TLC

VARIABLES stateFile, now, apiKey, faulty, logs, last, started, inflight

vars == <<stateFile, now, apiKey, faulty, logs, last, started, inflight>>

-----------------------------------------------------------------------------
(* Bounds of the model *)

MaxTicks == 3
MaxEnvTicks == 2
TickSeconds == 45
MaxLines == 2

\* the most log files a directory of the cap runs holds
MaxFiles == 6

-----------------------------------------------------------------------------
(* Python values: Optional[x] is <<>> (None) or <<x>>; dicts are functions *)

None == <<>>

Some(v) == <<v>>

IsSome(o) == o # <<>>

Val(o) == o[1]

EmptyMap == [k \in {} |-> None]

Put(f, k, v) == [x \in (DOMAIN f) \cup {k} |-> IF x = k THEN v ELSE f[x]]

Remove(f, k) == [x \in (DOMAIN f) \ {k} |-> f[x]]

-----------------------------------------------------------------------------
(* Log scanner *)

ScanCap == 5
SecondsPerMinute == 60

\* timestamp field of a log entry: missing/empty, unparsable, or an instant
NoTs == [k |-> "none", t |-> 0]

BadTs == [k |-> "bad", t |-> 0]

Ts(t) == [k |-> "time", t |-> t]

Usage(i, o, cc, cr) ==
    [input_tokens |-> i, output_tokens |-> o,
     cache_creation_input_tokens |-> cc, cache_read_input_tokens |-> cr]

\* one line of a JSONL file
BlankLine == [kind |-> "blank", ts |-> NoTs, msg |-> "absent", usage |-> None, model |-> None]

NotJsonLine == [kind |-> "notjson", ts |-> NoTs, msg |-> "absent", usage |-> None, model |-> None]

NonObjectLine == [kind |-> "nonobject", ts |-> NoTs, msg |-> "absent", usage |-> None, model |-> None]

Entry(ts, usage, model) ==
    [kind |-> "object", ts |-> ts, msg |-> "object", usage |-> usage, model |-> model]

EntryNoMessage(ts) ==
    [kind |-> "object", ts |-> ts, msg |-> "absent", usage |-> None, model |-> None]

EntryBadMessage(ts) ==
    [kind |-> "object", ts |-> ts, msg |-> "nonobject", usage |-> None, model |-> None]

ZeroTotals ==
    [input_tokens |-> 0, output_tokens |-> 0, cache_creation_tokens |-> 0,
     cache_read_tokens |-> 0, model |-> None, entries_processed |-> 0,
     latest_timestamp |-> None]

\* lines 181-187: the entry is dropped when both timestamps are truthy, the
\* entry's parses, and it is not later than after_timestamp
FilteredOut(ts, after) ==
    /\ ts.k # "none"
    /\ IsSome(after) /\ Val(after) # 0
    /\ ts.k = "time"
    /\ ts.t <= Val(after)

\* lines 194-207: accumulate one usage record
Accumulate(totals, line) ==
    [input_tokens |-> totals.input_tokens + Val(line.usage).input_tokens,
     output_tokens |-> totals.output_tokens + Val(line.usage).output_tokens,
     cache_creation_tokens |->
         totals.cache_creation_tokens + Val(line.usage).cache_creation_input_tokens,
     cache_read_tokens |->
         totals.cache_read_tokens + Val(line.usage).cache_read_input_tokens,
     model |-> IF IsSome(line.model) THEN line.model ELSE totals.model,
     entries_processed |-> totals.entries_processed + 1,
     latest_timestamp |->
         IF line.ts.k # "none" THEN Some(line.ts) ELSE totals.latest_timestamp]

\* a line on which entry.get / message.get raises: the exception leaves the
\* for loop and is caught by the outer handler (lines 209-210)
LineRaises(line) ==
    \/ line.kind = "nonobject"
    \/ line.kind = "object" /\ line.msg = "nonobject"

\* the body of the for loop of parse_jsonl_for_tokens, from line i on
RECURSIVE ScanLines(_, _, _, _)
ScanLines(lines, i, totals, after) ==
    IF i > Len(lines) THEN totals
    ELSE LET line == lines[i] IN
         IF line.kind \in {"blank", "notjson"}
         THEN ScanLines(lines, i + 1, totals, after)
         ELSE IF LineRaises(line) THEN totals
         ELSE IF FilteredOut(line.ts, after)
         THEN ScanLines(lines, i + 1, totals, after)
         ELSE IF IsSome(line.usage)
         THEN ScanLines(lines, i + 1, Accumulate(totals, line), after)
         ELSE ScanLines(lines, i + 1, totals, after)

parse_jsonl_for_tokens(jsonl_file, after_timestamp) ==
    IF jsonl_file.status = "unreadable" THEN ZeroTotals
    ELSE ScanLines(jsonl_file.lines, 1, ZeroTotals, after_timestamp)

\* stable insertion of a file into a list sorted by mtime, newest first
RECURSIVE InsertByMtime(_, _)
InsertByMtime(sorted, f) ==
    IF sorted = <<>> THEN <<f>>
    ELSE IF Head(sorted).mtime >= f.mtime
         THEN <<Head(sorted)>> \o InsertByMtime(Tail(sorted), f)
         ELSE <<f>> \o sorted

RECURSIVE SortByMtime(_, _)
SortByMtime(files, i) ==
    IF i = 0 THEN <<>>
    ELSE InsertByMtime(SortByMtime(files, i - 1), files[i])

\* stat() of a dangling path raises inside the sort key (line 145)
StatRaises(dir) == \E i \in 1..Len(dir) : dir[i].status = "broken"

find_jsonl_files(dir) == SortByMtime(dir, Len(dir))

\* a slice that keeps every file
FirstN_All(s, n) == s

FirstN(s, n) == SubSeq(s, 1, IF Len(s) < n THEN Len(s) ELSE n)

ZeroAggregate ==
    [input_tokens |-> 0, output_tokens |-> 0, cache_creation_tokens |-> 0,
     cache_read_tokens |-> 0, model |-> None]

\* lines 237-243
AddTokens(aggregated, tokens) ==
    [input_tokens |-> aggregated.input_tokens + tokens.input_tokens,
     output_tokens |-> aggregated.output_tokens + tokens.output_tokens,
     cache_creation_tokens |->
         aggregated.cache_creation_tokens + tokens.cache_creation_tokens,
     cache_read_tokens |-> aggregated.cache_read_tokens + tokens.cache_read_tokens,
     model |-> IF IsSome(tokens.model) THEN tokens.model ELSE aggregated.model]

RECURSIVE AggregateFiles(_, _, _, _)
AggregateFiles(files, i, aggregated, start_timestamp) ==
    IF i > Len(files) THEN aggregated
    ELSE AggregateFiles(files, i + 1,
             AddTokens(aggregated, parse_jsonl_for_tokens(files[i], start_timestamp)),
             start_timestamp)

-----------------------------------------------------------------------------
(* State store *)

DefaultState == [kind |-> "object", sessions |-> EmptyMap, processed_entries |-> <<>>]

\* the file is missing, is not JSON ("invalid"), or holds a JSON document:
\* an object with a sessions mapping ("object"), an object whose sessions
\* field is not a mapping ("badsessions"), or a non-object ("nonobject")
MissingFile == [kind |-> "missing", sessions |-> EmptyMap, processed_entries |-> <<>>]

InvalidFile == [kind |-> "invalid", sessions |-> EmptyMap, processed_entries |-> <<>>]

load_state(file) ==
    IF file.kind \in {"missing", "invalid"} THEN DefaultState ELSE file

\* outcome "ok": the document replaces the file; "unchanged": mkdir or open
\* failed; "truncated": open succeeded and the dump failed
save_state(file, state, outcome) ==
    CASE outcome = "ok" -> state
      [] outcome = "unchanged" -> file
      [] OTHER -> InvalidFile

\* state.get("sessions", {}) raises on a non-object document, and
\* .get(session_id, {}) raises on a sessions value that is not a mapping
StateRaises(state) == state.kind # "object"

\* a lookup that takes the record of any session
SessionData_AnySession(state, session_id) ==
    IF DOMAIN state.sessions # {}
    THEN Some(state.sessions[CHOOSE k \in DOMAIN state.sessions : TRUE]) ELSE None

\* session_data: the record, or {} when there is none
SessionData(state, session_id) ==
    IF session_id \in DOMAIN state.sessions
    THEN Some(state.sessions[session_id]) ELSE None

DashboardId(session_data) ==
    IF IsSome(session_data) THEN Val(session_data).dashboard_id ELSE None

StartTimestamp(session_data) ==
    IF IsSome(session_data) THEN Val(session_data).start_timestamp ELSE None

-----------------------------------------------------------------------------
(* Outbound sender *)

NoBody == [shape |-> "none", truthy |-> FALSE, id |-> None]

\* the transport's answer: an error, a 2xx whose body is not JSON, or a 2xx
\* with a JSON body
NetError == [status |-> "error", body |-> NoBody]

NetBadBody == [status |-> "badbody", body |-> NoBody]

NetOk(body) == [status |-> "ok", body |-> body]

RespId(d) == [shape |-> "object", truthy |-> TRUE, id |-> Some(d)]

RespNoId == [shape |-> "object", truthy |-> TRUE, id |-> None]

RespEmpty == [shape |-> "object", truthy |-> FALSE, id |-> None]

RespOther == [shape |-> "other", truthy |-> TRUE, id |-> None]

\* a sender that never takes the key for missing
KeyMissing_Never(key) == FALSE

KeyMissing(key) == ~key

\* a sender that tries a second time after a failure
send_event_Retry(key, event_type, data, net) ==
    IF KeyMissing(key)
    THEN [success |-> FALSE, response |-> NoBody, attempts |-> 0,
          call |-> [event |-> event_type, data |-> data]]
    ELSE [success |-> net.status = "ok",
          response |-> IF net.status = "ok" THEN net.body ELSE NoBody,
          attempts |-> IF net.status = "ok" THEN 1 ELSE 2,
          call |-> [event |-> event_type, data |-> data]]

send_event(key, event_type, data, net) ==
    IF KeyMissing(key)
    THEN [success |-> FALSE, response |-> NoBody, attempts |-> 0,
          call |-> [event |-> event_type, data |-> data]]
    ELSE [success |-> net.status = "ok",
          response |-> IF net.status = "ok" THEN net.body ELSE NoBody,
          attempts |-> 1,
          call |-> [event |-> event_type, data |-> data]]

-----------------------------------------------------------------------------
(* Paths: a path is the list of its components, split on "/" *)

EmptyPath == <<"">>

\* os.path.basename
Basename(path) == path[Len(path)]

\* line 253 / line 402
ProjectName(cwd) == IF cwd # EmptyPath THEN Some(Basename(cwd)) ELSE None

-----------------------------------------------------------------------------
(* Language of a file: a file path is the list of its characters *)

UpperCase == <<"A", "B", "C", "D", "E", "F", "G", "H", "I", "J", "K", "L", "M", "N", "O", "P", "Q", "R", "S", "T", "U", "V", "W", "X", "Y", "Z">>

LowerCase == <<"a", "b", "c", "d", "e", "f", "g", "h", "i", "j", "k", "l", "m", "n", "o", "p", "q", "r", "s", "t", "u", "v", "w", "x", "y", "z">>

\* str.lower, one character
LowerChar(c) ==
    IF \E i \in 1..26 : UpperCase[i] = c
    THEN LowerCase[CHOOSE i \in 1..26 : UpperCase[i] = c]
    ELSE c

Lower(str) == [i \in 1..Len(str) |-> LowerChar(str[i])]

\* str.rfind(c) + 1: the last position of c, 0 when there is none
LastIndexOf(str, c) ==
    IF \E i \in 1..Len(str) : str[i] = c
    THEN CHOOSE i \in 1..Len(str) :
             str[i] = c /\ \A j \in (i + 1)..Len(str) : str[j] # c
    ELSE 0

\* os.path.splitext(p)[1]: from the last dot of the last component, unless
\* that component has nothing but dots before it
Splitext(p) ==
    LET sep == LastIndexOf(p, "/")
        dot == LastIndexOf(p, ".")
    IN  IF dot > sep /\ \E i \in (sep + 1)..(dot - 1) : p[i] # "."
        THEN SubSeq(p, dot, Len(p)) ELSE <<>>

language_map ==
    {<<<<".", "p", "y">>, "python">>,
     <<<<".", "j", "s">>, "javascript">>,
     <<<<".", "t", "s">>, "typescript">>,
     <<<<".", "t", "s", "x">>, "typescript">>,
     <<<<".", "j", "s", "x">>, "javascript">>,
     <<<<".", "g", "o">>, "go">>,
     <<<<".", "r", "s">>, "rust">>,
     <<<<".", "j", "a", "v", "a">>, "java">>,
     <<<<".", "r", "b">>, "ruby">>,
     <<<<".", "p", "h", "p">>, "php">>,
     <<<<".", "c">>, "c">>,
     <<<<".", "c", "p", "p">>, "cpp">>,
     <<<<".", "h">>, "c">>,
     <<<<".", "h", "p", "p">>, "cpp">>,
     <<<<".", "c", "s">>, "csharp">>,
     <<<<".", "s", "w", "i", "f", "t">>, "swift">>,
     <<<<".", "k", "t">>, "kotlin">>,
     <<<<".", "s", "c", "a", "l", "a">>, "scala">>,
     <<<<".", "s", "h">>, "shell">>,
     <<<<".", "b", "a", "s", "h">>, "shell">>,
     <<<<".", "z", "s", "h">>, "shell">>,
     <<<<".", "s", "q", "l">>, "sql">>,
     <<<<".", "h", "t", "m", "l">>, "html">>,
     <<<<".", "c", "s", "s">>, "css">>,
     <<<<".", "s", "c", "s", "s">>, "scss">>,
     <<<<".", "j", "s", "o", "n">>, "json">>,
     <<<<".", "y", "a", "m", "l">>, "yaml">>,
     <<<<".", "y", "m", "l">>, "yaml">>,
     <<<<".", "m", "d">>, "markdown">>,
     <<<<".", "x", "m", "l">>, "xml">>}

\* lines 365-400
DetectLanguage(file_path) ==
    IF file_path = <<>> THEN None
    ELSE LET ext == Lower(Splitext(file_path))
         IN  IF \E e \in language_map : e[1] = ext
             THEN Some((CHOOSE e \in language_map : e[1] = ext)[2])
             ELSE None

-----------------------------------------------------------------------------
(* Handlers.  A handler returns the in-memory state, whether it called      *)
(* save_state, the send_event calls it made, the network attempts, whether  *)
(* an exception escaped it, and the aggregate it computed (Stop only).      *)

Result(state, save, calls, attempts, raised, tokens) ==
    [state |-> state, save |-> save, calls |-> calls, attempts |-> attempts,
     raised |-> raised, tokens |-> tokens]

\* lines 221-246; find_jsonl_files has not raised
get_session_tokens(session_id, state, dir) ==
    LET session_data == SessionData(state, session_id)
        start_timestamp == StartTimestamp(session_data)
        jsonl_files == find_jsonl_files(dir)
    IN  AggregateFiles(FirstN(jsonl_files, ScanCap), 1, ZeroAggregate, start_timestamp)

\* lines 271-276
NewSessionRecord(dashboard_session_id, clock, project_name, cwd) ==
    [dashboard_id |-> dashboard_session_id, start_timestamp |-> Some(clock),
     project_name |-> project_name, cwd |-> cwd]

\* a store that keeps the record a session ID already has
StoreSession_KeepExisting(state, session_id, record) ==
    IF session_id \in DOMAIN state.sessions THEN state
    ELSE [state EXCEPT !.sessions = Put(@, session_id, record)]

\* line 271: state.setdefault("sessions", {})[session_id] = record
StoreSession(state, session_id, record) ==
    [state EXCEPT !.sessions = Put(@, session_id, record)]

\* a handler that stores a record whether or not the send succeeded
handle_session_start_StoresAlways(input_data, state, key, net, clock) ==
    LET session_id == input_data.session_id
        cwd == input_data.cwd
        project_name == ProjectName(cwd)
        sent == send_event(key, "session_start",
                    [tool |-> "claude_code", projectName |-> project_name,
                     externalSessionId |-> session_id,
                     metadata |-> [cwd |-> cwd, hookVersion |-> "2.0"]], net)
    IN  IF sent.success /\ sent.response.truthy
        THEN IF sent.response.shape # "object" \/ StateRaises(state)
             THEN Result(state, FALSE, <<sent.call>>, sent.attempts, TRUE, None)
             ELSE Result(StoreSession(state, session_id,
                             NewSessionRecord(sent.response.id, clock, project_name, cwd)),
                         TRUE, <<sent.call>>, sent.attempts, FALSE, None)
        ELSE Result(StoreSession(state, session_id,
                        NewSessionRecord(None, clock, project_name, cwd)),
                    TRUE, <<sent.call>>, sent.attempts, FALSE, None)

handle_session_start(input_data, state, key, net, clock) ==
    LET session_id == input_data.session_id
        cwd == input_data.cwd
        project_name == ProjectName(cwd)
        sent == send_event(key, "session_start",
                    [tool |-> "claude_code", projectName |-> project_name,
                     externalSessionId |-> session_id,
                     metadata |-> [cwd |-> cwd, hookVersion |-> "2.0"]], net)
    IN  IF sent.success /\ sent.response.truthy
        THEN IF sent.response.shape # "object" \/ StateRaises(state)
             THEN Result(state, FALSE, <<sent.call>>, sent.attempts, TRUE, None)
             ELSE Result(StoreSession(state, session_id,
                             NewSessionRecord(sent.response.id, clock, project_name, cwd)),
                         TRUE, <<sent.call>>, sent.attempts, FALSE, None)
        ELSE Result(state, FALSE, <<sent.call>>, sent.attempts, FALSE, None)

\* line 300
HasTokenData(tokens) == tokens.input_tokens > 0 \/ tokens.output_tokens > 0

\* lines 302-305
DurationMinutes(start_timestamp, clock) ==
    IF IsSome(start_timestamp) /\ Val(start_timestamp) # 0
    THEN Some((clock - Val(start_timestamp)) \div SecondsPerMinute)
    ELSE None

\* lines 308-317 and 323-326
SessionEndData(dashboard_session_id, session_id, start_timestamp, tokens, clock) ==
    IF HasTokenData(tokens)
    THEN [sessionId |-> dashboard_session_id,
          externalSessionId |-> session_id,
          durationMinutes |-> DurationMinutes(start_timestamp, clock),
          totalInputTokens |-> tokens.input_tokens,
          totalOutputTokens |-> tokens.output_tokens,
          totalCacheReadTokens |-> tokens.cache_read_tokens,
          totalCacheWriteTokens |-> tokens.cache_creation_tokens,
          model |-> tokens.model]
    ELSE [sessionId |-> dashboard_session_id,
          externalSessionId |-> session_id]

\* a cleanup that drops every record
CleanUp_All(state, session_id) ==
    [state EXCEPT !.sessions = EmptyMap]

\* lines 330-332
CleanUp(state, session_id) ==
    [state EXCEPT !.sessions = Remove(@, session_id)]

handle_stop(input_data, state, key, net, clock, dir) ==
    LET session_id == input_data.session_id IN
    IF StateRaises(state) \/ StatRaises(dir)
    THEN Result(state, FALSE, <<>>, 0, TRUE, None)
    ELSE LET session_data == SessionData(state, session_id)
             dashboard_session_id == DashboardId(session_data)
             tokens == get_session_tokens(session_id, state, dir)
             sent == send_event(key, "session_end",
                         SessionEndData(dashboard_session_id, session_id,
                             StartTimestamp(session_data), tokens, clock), net)
         IN  IF session_id \in DOMAIN state.sessions
             THEN Result(CleanUp(state, session_id), TRUE, <<sent.call>>,
                         sent.attempts, FALSE, Some(tokens))
             ELSE Result(state, FALSE, <<sent.call>>, sent.attempts, FALSE,
                         Some(tokens))

\* line 343
ToolTracked(tool_name) == tool_name \in {"Write", "Edit"}

\* an outcome check that takes a missing success field for a failure
ToolSucceeded_DefaultFalse(tool_response) == tool_response = "true"

\* line 347: tool_response.get("success", True); tool_response is absent,
\* an object without a success field, or carries success true / false
ToolSucceeded(tool_response) == tool_response # "false"

\* a payload whose line estimates are attached to the wrong tool
CodeChangeData_Swapped(dashboard_session_id, session_id, tool_name, file_path, cwd) ==
    [sessionId |-> dashboard_session_id,
     externalSessionId |-> session_id,
     linesAdded |-> IF tool_name = "Edit" THEN 1 ELSE 0,
     linesModified |-> IF tool_name = "Write" THEN 1 ELSE 0,
     linesDeleted |-> 0,
     filesChanged |-> 1,
     language |-> DetectLanguage(file_path),
     repository |-> ProjectName(cwd)]

\* lines 404-413
CodeChangeData(dashboard_session_id, session_id, tool_name, file_path, cwd) ==
    [sessionId |-> dashboard_session_id,
     externalSessionId |-> session_id,
     linesAdded |-> IF tool_name = "Write" THEN 1 ELSE 0,
     linesModified |-> IF tool_name = "Edit" THEN 1 ELSE 0,
     linesDeleted |-> 0,
     filesChanged |-> 1,
     language |-> DetectLanguage(file_path),
     repository |-> ProjectName(cwd)]

\* a handler that writes the state document back after its send
handle_post_tool_use_Saving(input_data, state, key, net) ==
    IF ~ToolTracked(input_data.tool_name) \/ ~ToolSucceeded(input_data.tool_response)
    THEN Result(state, FALSE, <<>>, 0, FALSE, None)
    ELSE IF StateRaises(state)
    THEN Result(state, FALSE, <<>>, 0, TRUE, None)
    ELSE LET session_id == input_data.session_id
             dashboard_session_id == DashboardId(SessionData(state, session_id))
             sent == send_event(key, "code_change",
                         CodeChangeData(dashboard_session_id, session_id,
                             input_data.tool_name, input_data.file_path,
                             input_data.cwd), net)
         IN  Result(state, TRUE, <<sent.call>>, sent.attempts, FALSE, None)

handle_post_tool_use(input_data, state, key, net) ==
    IF ~ToolTracked(input_data.tool_name) \/ ~ToolSucceeded(input_data.tool_response)
    THEN Result(state, FALSE, <<>>, 0, FALSE, None)
    ELSE IF StateRaises(state)
    THEN Result(state, FALSE, <<>>, 0, TRUE, None)
    ELSE LET session_id == input_data.session_id
             dashboard_session_id == DashboardId(SessionData(state, session_id))
             sent == send_event(key, "code_change",
                         CodeChangeData(dashboard_session_id, session_id,
                             input_data.tool_name, input_data.file_path,
                             input_data.cwd), net)
         IN  Result(state, FALSE, <<sent.call>>, sent.attempts, FALSE, None)

\* lines 437-444
Dispatch(input_data, state, key, net, clock, dir) ==
    CASE input_data.hook_event_name = "SessionStart" ->
             handle_session_start(input_data, state, key, net, clock)
      [] input_data.hook_event_name = "Stop" ->
             handle_stop(input_data, state, key, net, clock, dir)
      [] input_data.hook_event_name = "PostToolUse" ->
             handle_post_tool_use(input_data, state, key, net)
      [] OTHER -> Result(state, FALSE, <<>>, 0, FALSE, None)

\* the exit status: sys.exit(0), or 1 when an exception reaches the interpreter
ExitStatus(raised) == IF raised THEN 1 ELSE 0

\* one run of the hook: what it leaves in the state file and what it did
main(stdin, file, key, net, clock, dir, saveOutcome) ==
    IF stdin.kind = "notjson"
    THEN [file |-> file, exit |-> 0, calls |-> <<>>, attempts |-> 0,
          saved |-> FALSE, tokens |-> None]
    ELSE LET state == load_state(file) IN
         IF stdin.kind # "object"
         THEN [file |-> file, exit |-> ExitStatus(TRUE), calls |-> <<>>,
               attempts |-> 0, saved |-> FALSE, tokens |-> None]
         ELSE LET r == Dispatch(stdin, state, key, net, clock, dir)
              IN  [file |-> IF r.save THEN save_state(file, r.state, saveOutcome)
                            ELSE file,
                   exit |-> ExitStatus(r.raised), calls |-> r.calls,
                   attempts |-> r.attempts, saved |-> r.save, tokens |-> r.tokens]

-----------------------------------------------------------------------------
(* Inputs of an invocation *)

Sids == {"s1", "s2"}

DashIds == {"d1", "d2"}

Cwds == {EmptyPath, <<"", "repo", "proj">>, <<"", "work", "api", "">>}

FilePaths == {<<>>, <<"a", ".", "r", "s">>, <<"n", ".", "t", "x", "t">>}

ToolNames == {"Write", "Edit", "Bash"}

ToolResponses == {"absent", "nosuccess", "true", "false"}

\* stdin: not JSON, JSON that is not an object, or an event object
Stdin(kind, event, session_id, cwd, tool_name, tool_response, file_path) ==
    [kind |-> kind, hook_event_name |-> event, session_id |-> session_id,
     cwd |-> cwd, tool_name |-> tool_name, tool_response |-> tool_response,
     file_path |-> file_path]

NoStdin == Stdin("none", "", "", EmptyPath, "", "absent", <<>>)

StartResponses ==
    {RespId(d) : d \in DashIds} \cup {RespNoId, RespEmpty, RespOther}

StartNets == {NetError, NetBadBody} \cup {NetOk(b) : b \in StartResponses}

OtherNets == {NetError, NetOk(RespEmpty)}

\* instants used in the logs, relative to the clock's first tick
T0 == TickSeconds - 5
T1 == TickSeconds
T2 == 2 * TickSeconds + 10

File(mtime, status, lines) == [mtime |-> mtime, status |-> status, lines |-> lines]

InOutEntry == Entry(Ts(T2), Some(Usage(5, 1, 0, 0)), Some("m2"))

OldEntry == Entry(Ts(T1), Some(Usage(10, 0, 0, 0)), Some("m1"))

CacheEntry == Entry(Ts(T2), Some(Usage(0, 0, 2, 3)), Some("m1"))

\* an entry written between the first and the second tick of the clock
MidEntry == Entry(Ts(T1 + 10), Some(Usage(7, 0, 0, 0)), Some("m1"))

\* the log directories a Stop may find
LogDirs ==
    {<<>>,
     <<File(1, "ok", <<OldEntry, InOutEntry>>)>>,
     <<File(1, "ok", <<CacheEntry>>)>>,
     <<File(1, "ok", <<MidEntry>>)>>,
     <<File(1, "ok", <<OldEntry>>), File(2, "ok", <<NotJsonLine, InOutEntry>>)>>}

\* directories with a dangling *.jsonl path or an unreadable file
FaultDirs ==
    {<<File(1, "broken", <<>>)>>,
     <<File(1, "unreadable", <<InOutEntry>>), File(2, "ok", <<OldEntry>>)>>}

NoRecordDoc(kind) == [kind |-> kind, sessions |-> EmptyMap, processed_entries |-> <<>>]

\* every content of the state file: missing, not JSON, a non-object document,
\* an object whose sessions is not a mapping, and well-formed documents
StateFileContents ==
    {MissingFile, InvalidFile, NoRecordDoc("nonobject"), NoRecordDoc("badsessions"),
     DefaultState,
     [DefaultState EXCEPT !.sessions =
         Put(EmptyMap, "s1", [dashboard_id |-> Some("d1"), start_timestamp |-> None,
                              project_name |-> None, cwd |-> EmptyPath])]}

-----------------------------------------------------------------------------
(* History of the run: for each session ID, the remote id of the latest     *)
(* SessionStart answered with an id, and the id (or None) of the latest     *)
(* SessionStart answered with a non-empty object, both since the last Stop  *)

NoStart == [withId |-> None, stored |-> None]

NextStarted(hist, stdin, key, net) ==
    IF stdin.kind # "object" THEN hist
    ELSE IF stdin.hook_event_name = "Stop"
    THEN [hist EXCEPT ![stdin.session_id] = NoStart]
    ELSE IF stdin.hook_event_name = "SessionStart" /\ key /\ net.status = "ok"
            /\ net.body.shape = "object"
    THEN [hist EXCEPT ![stdin.session_id] =
             [withId |-> IF IsSome(net.body.id) THEN net.body.id ELSE @.withId,
              stored |-> IF net.body.truthy THEN Some(net.body.id) ELSE @.stored]]
    ELSE hist

-----------------------------------------------------------------------------
(* The state machine: each step is one whole invocation of the hook *)

SaveOutcomes == IF faulty THEN {"ok", "unchanged", "truncated"} ELSE {"ok"}

Dirs == IF faulty THEN LogDirs \cup FaultDirs ELSE LogDirs

Invoke(stdin, net, dir, saveOutcome) ==
    /\ now < (IF faulty THEN MaxEnvTicks ELSE MaxTicks) * TickSeconds
    /\ LET clock == now + TickSeconds
           r == main(stdin, stateFile, apiKey, net, clock, dir, saveOutcome)
       IN  /\ now' = clock
           /\ stateFile' = r.file
           /\ logs' = dir
           /\ last' = [stdin |-> stdin, net |-> net, exit |-> r.exit,
                       calls |-> r.calls, attempts |-> r.attempts,
                       saved |-> r.saved, tokens |-> r.tokens,
                       before |-> stateFile,
                       hist |-> IF stdin.session_id \in Sids
                                THEN started[stdin.session_id] ELSE NoStart]
           /\ started' = NextStarted(started, stdin, apiKey, net)
    /\ UNCHANGED <<apiKey, faulty, inflight>>

\* the SessionStart events tried: s1 in every working directory, s2 in one
StartInputs ==
    {Stdin("object", "SessionStart", "s1", cwd, "", "absent", <<>>) : cwd \in Cwds}
    \cup {Stdin("object", "SessionStart", "s2", <<"", "repo", "proj">>, "", "absent", <<>>)}

\* the working directory only enters the payload and the record: every
\* answer is tried in one directory, one answer in the others
StartNetsFor(stdin) ==
    IF stdin.cwd = <<"", "repo", "proj">> THEN StartNets ELSE {NetOk(RespId("d1"))}

HookSessionStart ==
    \E stdin \in StartInputs, so \in SaveOutcomes :
        \E net \in StartNetsFor(stdin) : Invoke(stdin, net, logs, so)

HookStop ==
    \E sid \in Sids, net \in OtherNets, dir \in Dirs, so \in SaveOutcomes :
        Invoke(Stdin("object", "Stop", sid, EmptyPath, "", "absent", <<>>),
               net, dir, so)

\* the PostToolUse events tried: every tool kind with every outcome, for each
\* session ID, and each tracked tool on every file path and working directory
PostInputs ==
    {Stdin("object", "PostToolUse", sid, <<"", "repo", "proj">>, tool, resp,
           <<"a", ".", "r", "s">>) :
        sid \in Sids, tool \in ToolNames, resp \in ToolResponses}
    \cup
    {Stdin("object", "PostToolUse", "s1", cwd, tool, "true", path) :
        cwd \in {EmptyPath, <<"", "repo", "proj">>}, tool \in {"Write", "Edit"},
        path \in FilePaths}

\* the answer is ignored by the handler: one failing send is tried
PostNets(stdin) ==
    IF stdin.session_id = "s1" /\ stdin.tool_name = "Write" /\ stdin.cwd = EmptyPath
    THEN OtherNets ELSE {NetOk(RespEmpty)}

HookPostToolUse ==
    \E stdin \in PostInputs :
        \E net \in PostNets(stdin) : Invoke(stdin, net, logs, "ok")

HookUnhandled ==
    \E sid \in Sids, net \in {NetOk(RespEmpty)} :
        Invoke(Stdin("object", "Notification", sid, EmptyPath, "", "absent", <<>>),
               net, logs, "ok")

HookBadStdin ==
    \E kind \in {"notjson", "nonobject"} :
        Invoke(Stdin(kind, "", "", EmptyPath, "", "absent", <<>>), NetError, logs, "ok")

NoInvocation ==
    [stdin |-> NoStdin, net |-> NetError, exit |-> 0, calls |-> <<>>,
     attempts |-> 0, saved |-> FALSE, tokens |-> None, before |-> MissingFile,
     hist |-> NoStart]

\* the invocations that may overlap, and where each of them is: not started
\* ("idle"), past load_state ("loaded"), past open() in save_state
\* ("opened"), or exited ("done")
Procs == {"p1", "p2"}

NotRunning ==
    [pc |-> "idle", stdin |-> NoStdin, net |-> NetError, state |-> DefaultState,
     doc |-> DefaultState, wrote |-> 0]

NoneInFlight == [p \in Procs |-> NotRunning]

\* first run: no state file yet
Init ==
    /\ stateFile = MissingFile
    /\ now = 0
    /\ apiKey \in BOOLEAN
    /\ faulty = FALSE
    /\ logs = <<>>
    /\ last = NoInvocation
    /\ started = [s \in Sids |-> NoStart]
    /\ inflight = NoneInFlight

Next ==
    \/ HookSessionStart
    \/ HookStop
    \/ HookPostToolUse
    \/ HookUnhandled
    \/ HookBadStdin

Spec == Init /\ [][Next]_vars

\* the same program where the state file may hold anything, saves may fail
\* and the log directory may hold dangling or unreadable files
InitEnv ==
    /\ stateFile \in StateFileContents
    /\ now = 0
    /\ apiKey \in BOOLEAN
    /\ faulty = TRUE
    /\ logs = <<>>
    /\ last = NoInvocation
    /\ started = [s \in Sids |-> NoStart]
    /\ inflight = NoneInFlight

SpecEnv == InitEnv /\ [][Next]_vars

-----------------------------------------------------------------------------
(* The log scanner on its own: a session s1 was started at the first tick,  *)
(* the log directory holds any lines, and Stop events scan it               *)

BeforeEntry == Entry(Ts(T0), Some(Usage(100, 0, 0, 0)), Some("m1"))

UntimedEntry == Entry(NoTs, Some(Usage(1, 1, 1, 1)), None)

BadTsEntry == Entry(BadTs, Some(Usage(20, 0, 0, 0)), None)

ScanLinePool ==
    {BlankLine, NotJsonLine, NonObjectLine, EntryBadMessage(Ts(T2)),
     EntryNoMessage(Ts(T2)), BeforeEntry, OldEntry, InOutEntry, CacheEntry,
     UntimedEntry, BadTsEntry}

LinesUpTo(n) == UNION {[1..k -> ScanLinePool] : k \in 0..n}

ScanDirs ==
    {<<File(2, "ok", ls)>> : ls \in LinesUpTo(MaxLines)}
    \cup {<<File(2, "ok", ls), File(m, "ok", <<InOutEntry>>)>> :
             ls \in LinesUpTo(MaxLines), m \in {1, 3}}

StartedDoc ==
    [DefaultState EXCEPT !.sessions =
        Put(EmptyMap, "s1",
            NewSessionRecord(Some("d1"), TickSeconds, Some("proj"),
                             <<"", "repo", "proj">>))]

InitScan ==
    /\ stateFile = StartedDoc
    /\ now = TickSeconds
    /\ apiKey = TRUE
    /\ faulty = FALSE
    /\ logs \in ScanDirs
    /\ last = NoInvocation
    /\ started = [s \in Sids |->
                     IF s = "s1" THEN [withId |-> Some("d1"), stored |-> Some(Some("d1"))]
                     ELSE NoStart]
    /\ inflight = NoneInFlight

ScanStop ==
    \E sid \in Sids :
        Invoke(Stdin("object", "Stop", sid, EmptyPath, "", "absent", <<>>),
               NetOk(RespEmpty), logs, "ok")

NextScan == ScanStop

SpecScan == InitScan /\ [][NextScan]_vars

-----------------------------------------------------------------------------
(* The scan cap on its own: directories of up to MaxFiles log files in      *)
(* several listing orders, and Stop events for a started and a fresh session *)

\* what a log file of these directories holds
CapContents == {<<InOutEntry>>, <<UntimedEntry>>, <<OldEntry>>}

\* listing orders of n files with the modification times 1..n: oldest
\* first, newest first, and rotated
MtimeOrders(n) ==
    {[i \in 1..n |-> i], [i \in 1..n |-> n + 1 - i], [i \in 1..n |-> ((i + 1) % n) + 1]}

CapDirs ==
    UNION {{[i \in 1..n |-> File(order[i], "ok", content[i])] :
               order \in MtimeOrders(n), content \in [1..n -> CapContents]} :
           n \in 0..MaxFiles}

InitCap ==
    /\ stateFile = StartedDoc
    /\ now = TickSeconds
    /\ apiKey = TRUE
    /\ faulty = FALSE
    /\ logs \in CapDirs
    /\ last = NoInvocation
    /\ started = [s \in Sids |->
                     IF s = "s1" THEN [withId |-> Some("d1"), stored |-> Some(Some("d1"))]
                     ELSE NoStart]
    /\ inflight = NoneInFlight

SpecCap == InitCap /\ [][NextScan]_vars

-----------------------------------------------------------------------------
(* Two overlapping invocations: each loads the state file, runs its handler *)
(* on what it loaded, and saves by open(path, "w"), which empties the file, *)
(* and a write of the whole document at offset 0 when the file is closed    *)

RaceInputs ==
    {Stdin("object", "SessionStart", sid, <<"", "repo", "proj">>, "", "absent", <<>>) :
        sid \in Sids}
    \cup {Stdin("object", "Stop", sid, EmptyPath, "", "absent", <<>>) : sid \in Sids}
    \cup {Stdin("object", "PostToolUse", "s1", <<"", "repo", "proj">>, "Write", "true",
                <<"a", ".", "r", "s">>)}

RaceNets == {NetOk(RespId("d2")), NetError}

BothStartedDoc ==
    [StartedDoc EXCEPT !.sessions =
        Put(@, "s2", NewSessionRecord(Some("d1"), TickSeconds, None, EmptyPath))]

\* every record of document b is in document a, so a's text is no shorter
Contains(a, b) ==
    \A s \in DOMAIN b.sessions :
        s \in DOMAIN a.sessions /\ a.sessions[s] = b.sessions[s]

\* what the file holds after doc is written at offset 0: doc when the file
\* was empty or its text was no longer than doc's, else doc followed by the
\* rest of the longer text, which is not JSON; documents with other records
\* may be of either length
WriteOutcomes(file, doc) ==
    IF file.kind # "object" \/ Contains(doc, file) THEN {doc}
    ELSE IF Contains(file, doc) THEN {InvalidFile}
    ELSE {doc, InvalidFile}

\* lines 419 and 429: stdin is parsed and the state file is loaded
RaceLoad(p) ==
    \E stdin \in RaceInputs, net \in RaceNets :
        /\ inflight[p].pc = "idle"
        /\ inflight' = [inflight EXCEPT ![p] =
               [@ EXCEPT !.pc = "loaded", !.stdin = stdin, !.net = net,
                         !.state = load_state(stateFile)]]
        /\ UNCHANGED <<stateFile, now, apiKey, faulty, logs, last, started>>

\* lines 437-442 and 68: the handler runs on the loaded document; when it
\* saves, open(STATE_FILE, "w") empties the file
RaceHandle(p) ==
    /\ inflight[p].pc = "loaded"
    /\ LET clock == now + TickSeconds
           r == Dispatch(inflight[p].stdin, inflight[p].state, apiKey,
                         inflight[p].net, clock, logs)
       IN  /\ now' = clock
           /\ stateFile' = IF r.save THEN InvalidFile ELSE stateFile
           /\ inflight' = [inflight EXCEPT ![p] =
                  [@ EXCEPT !.pc = IF r.save THEN "opened" ELSE "done",
                            !.doc = r.state]]
    /\ UNCHANGED <<apiKey, faulty, logs, last, started>>

\* lines 69-70: json.dump fills the buffer and closing the file writes it
RaceWrite(p) ==
    /\ inflight[p].pc = "opened"
    /\ \E content \in WriteOutcomes(stateFile, inflight[p].doc) :
           stateFile' = content
    /\ inflight' = [inflight EXCEPT ![p] =
           [@ EXCEPT !.pc = "done",
                     !.wrote = 1 + Cardinality({q \in Procs : inflight[q].wrote > 0})]]
    /\ UNCHANGED <<now, apiKey, faulty, logs, last, started>>

InitRace ==
    /\ stateFile \in {MissingFile, StartedDoc, BothStartedDoc}
    /\ now = TickSeconds
    /\ apiKey = TRUE
    /\ faulty = FALSE
    /\ logs = <<>>
    /\ last = NoInvocation
    /\ started = [s \in Sids |-> NoStart]
    /\ inflight = NoneInFlight

NextRace == \E p \in Procs : RaceLoad(p) \/ RaceHandle(p) \/ RaceWrite(p)

SpecRace == InitRace /\ [][NextRace]_vars

-----------------------------------------------------------------------------
(* Properties *)

LastIs(event) == last.stdin.kind = "object" /\ last.stdin.hook_event_name = event

HadRecord == last.stdin.session_id \in DOMAIN last.before.sessions

\* C1: after a Stop for session ID s, the state file holds no record for s,
\* whatever the send, the log scan and the save encounter
C1_StopRemovesRecord ==
    LastIs("Stop") => last.stdin.session_id \notin DOMAIN stateFile.sessions

\* C2: every invocation exits with status 0
C2_AlwaysExitsZero == last.exit = 0

\* C3: without an API key no invocation attempts a network call, and every
\* event kind still exits 0
C3_NoKeyNoNetwork ==
    ~apiKey => /\ last.attempts = 0
               /\ last.stdin.kind = "object" => last.exit = 0

C3_Witness ==
    /\ ~apiKey
    /\ LastIs("Stop")
    /\ Len(last.calls) = 1
    /\ last.attempts = 0
    /\ last.exit = 0

\* the basename of each working directory an event may carry
ExpectedProject ==
    [c \in Cwds \ {EmptyPath} |->
        IF c = <<"", "repo", "proj">> THEN "proj" ELSE ""]

\* C4: a SessionStart for s in working directory c, answered with an object
\* carrying id d, leaves sessions[s] with dashboard_id d and project_name
\* basename(c), whether or not s had a record before
C4_StartStoresMapping ==
    (/\ LastIs("SessionStart")
     /\ apiKey
     /\ last.net.status = "ok"
     /\ last.net.body.shape = "object"
     /\ IsSome(last.net.body.id)
     /\ last.stdin.cwd # EmptyPath)
    => /\ stateFile.kind = "object"
       /\ last.stdin.session_id \in DOMAIN stateFile.sessions
       /\ stateFile.sessions[last.stdin.session_id].dashboard_id = last.net.body.id
       /\ stateFile.sessions[last.stdin.session_id].project_name
              = Some(ExpectedProject[last.stdin.cwd])

C4_Witness ==
    /\ LastIs("SessionStart")
    /\ HadRecord
    /\ last.before.sessions[last.stdin.session_id].dashboard_id = Some("d1")
    /\ last.net = NetOk(RespId("d2"))
    /\ last.stdin.cwd = <<"", "repo", "proj">>
    /\ stateFile.sessions[last.stdin.session_id].dashboard_id = Some("d2")
    /\ stateFile.sessions[last.stdin.session_id].project_name = Some("proj")

\* the last invocation made the one send that carries a sessionId
SentForSession ==
    /\ LastIs("Stop") \/ LastIs("PostToolUse")
    /\ Len(last.calls) = 1

\* a Stop, or a PostToolUse that is not filtered out
ShouldSend ==
    \/ LastIs("Stop")
    \/ /\ LastIs("PostToolUse")
       /\ last.stdin.tool_name \in {"Write", "Edit"}
       /\ last.stdin.tool_response # "false"

\* C5 as stated: once a SessionStart for s succeeded with remote id d, every
\* code_change and session_end payload for s carries sessionId d until a
\* Stop for s
C5_Original ==
    (SentForSession /\ IsSome(last.hist.withId))
    => last.calls[1].data.sessionId = last.hist.withId

\* C5 amended: the payloads for s carry the remote id of the latest
\* SessionStart for s that was answered with a non-empty object (absent when
\* that answer had no id), until a Stop for s; with no such start the
\* sessionId is absent and the event is still sent, with exit status 0
C5_CarriesLatestMapping ==
    ShouldSend
    => /\ Len(last.calls) = 1
       /\ last.exit = 0
       /\ last.calls[1].data.externalSessionId = last.stdin.session_id
       /\ last.calls[1].data.sessionId =
              (IF IsSome(last.hist.stored) THEN Val(last.hist.stored) ELSE None)

C5_Witness ==
    /\ LastIs("PostToolUse")
    /\ last.stdin.session_id = "s1"
    /\ Len(last.calls) = 1
    /\ last.calls[1].data.sessionId = Some("d1")
    /\ "s2" \in DOMAIN stateFile.sessions
    /\ stateFile.sessions["s2"].dashboard_id = Some("d2")

\* C6: a PostToolUse for a tool other than Write and Edit, or with success
\* false, sends nothing; a Write or Edit without a success field is sent
C6_PostToolUseFilter ==
    LastIs("PostToolUse")
    => /\ (last.stdin.tool_name \notin {"Write", "Edit"}
           \/ last.stdin.tool_response = "false")
          => (last.calls = <<>> /\ last.attempts = 0)
       /\ (last.stdin.tool_name \in {"Write", "Edit"}
           /\ last.stdin.tool_response = "nosuccess")
          => /\ Len(last.calls) = 1
             /\ last.calls[1].event = "code_change"
             /\ last.attempts = (IF apiKey THEN 1 ELSE 0)

C6_Witness ==
    /\ LastIs("PostToolUse")
    /\ last.stdin.tool_name = "Edit"
    /\ last.stdin.tool_response = "nosuccess"
    /\ apiKey
    /\ last.attempts = 1
    /\ last.calls[1].event = "code_change"

-----------------------------------------------------------------------------
(* Reference totals of a log directory, counted entry by entry *)

\* the files a Stop scans
Scanned == FirstN(find_jsonl_files(logs), ScanCap)

\* the positions <<file, line>> of the usage entries of the scanned files
UsageEntries ==
    {p \in UNION {{<<i, j>> : j \in 1..Len(Scanned[i].lines)} : i \in 1..Len(Scanned)} :
        LET line == Scanned[p[1]].lines[p[2]]
        IN  line.kind = "object" /\ line.msg = "object" /\ IsSome(line.usage)}

LineAt(p) == Scanned[p[1]].lines[p[2]]

Counters ==
    {"input_tokens", "output_tokens", "cache_creation_input_tokens",
     "cache_read_input_tokens"}

\* the name of each usage counter in the aggregate
AggregateField ==
    [c \in Counters |->
        CASE c = "input_tokens" -> "input_tokens"
          [] c = "output_tokens" -> "output_tokens"
          [] c = "cache_creation_input_tokens" -> "cache_creation_tokens"
          [] OTHER -> "cache_read_tokens"]

RECURSIVE SumCounter(_, _)
SumCounter(entries, c) ==
    IF entries = {} THEN 0
    ELSE LET p == CHOOSE q \in entries : TRUE
         IN  Val(LineAt(p).usage)[c] + SumCounter(entries \ {p}, c)

\* the start time recorded for the session of the last invocation
RecordedStart ==
    IF HadRecord THEN last.before.sessions[last.stdin.session_id].start_timestamp
    ELSE None

LaterThan(t) == {p \in UsageEntries : LineAt(p).ts.k = "time" /\ LineAt(p).ts.t > t}

NotLaterThan(t) == {p \in UsageEntries : LineAt(p).ts.k = "time" /\ LineAt(p).ts.t <= t}

\* C7: with a recorded start time, the aggregate of a Stop counts every usage
\* entry of the scanned files that is later than the start and no entry
\* whose timestamp is at or before it
C7_FilterByStartTime ==
    (LastIs("Stop") /\ IsSome(last.tokens) /\ IsSome(RecordedStart))
    => \A c \in Counters :
          /\ Val(last.tokens)[AggregateField[c]]
                 >= SumCounter(LaterThan(Val(RecordedStart)), c)
          /\ Val(last.tokens)[AggregateField[c]]
                 <= SumCounter(UsageEntries \ NotLaterThan(Val(RecordedStart)), c)

\* C8: with no recorded start time, the aggregate of a Stop counts every
\* usage entry of the scanned files
C8_NoStartNoFilter ==
    (LastIs("Stop") /\ IsSome(last.tokens) /\ ~IsSome(RecordedStart))
    => \A c \in Counters :
          Val(last.tokens)[AggregateField[c]] = SumCounter(UsageEntries, c)

\* a file without its blank, non-JSON and non-object lines
WellFormedLines(file) ==
    [file EXCEPT !.lines =
        SelectSeq(@, LAMBDA l : l.kind \notin {"blank", "notjson", "nonobject"})]

\* C9: the totals of a scanned file are those of the same file without its
\* malformed lines
C9_MalformedLinesSkipped ==
    LastIs("Stop")
    => \A i \in 1..Len(logs) : \A after \in {None, Some(TickSeconds)} :
          parse_jsonl_for_tokens(logs[i], after)
              = parse_jsonl_for_tokens(WellFormedLines(logs[i]), after)

\* C10: the session_end payload carries the four totals, the model and the
\* duration exactly when any of the four counters of the aggregate is
\* non-zero, the duration being absent without a recorded start time
C10_TotalsWhenUsageFound ==
    (LastIs("Stop") /\ IsSome(last.tokens))
    => LET data == last.calls[1].data
           anyUsage == \E c \in Counters : Val(last.tokens)[AggregateField[c]] # 0
       IN  IF anyUsage
           THEN /\ DOMAIN data = {"sessionId", "externalSessionId", "durationMinutes",
                                  "totalInputTokens", "totalOutputTokens",
                                  "totalCacheReadTokens", "totalCacheWriteTokens",
                                  "model"}
                /\ data.totalInputTokens = Val(last.tokens).input_tokens
                /\ data.totalOutputTokens = Val(last.tokens).output_tokens
                /\ data.totalCacheReadTokens = Val(last.tokens).cache_read_tokens
                /\ data.totalCacheWriteTokens = Val(last.tokens).cache_creation_tokens
                /\ data.model = Val(last.tokens).model
                /\ IsSome(data.durationMinutes) <=> IsSome(RecordedStart)
           ELSE DOMAIN data = {"sessionId", "externalSessionId"}

\* a PostToolUse for Write or Edit that did not report a failure
AcceptedPostToolUse ==
    /\ LastIs("PostToolUse")
    /\ last.stdin.tool_name \in {"Write", "Edit"}
    /\ last.stdin.tool_response # "false"

\* the label of the static table for each file path an event may carry
ExpectedLanguage ==
    [p \in FilePaths |-> IF p = <<"a", ".", "r", "s">> THEN Some("rust") ELSE None]

\* C11: the code_change payload of an accepted PostToolUse has linesAdded 1
\* and linesModified 0 for Write, 0 and 1 for Edit, and the language the
\* static table gives the file extension, absent for an unmapped extension
\* or a missing file path
C11_CodeChangePayload ==
    AcceptedPostToolUse
    => /\ Len(last.calls) = 1
       /\ last.calls[1].event = "code_change"
       /\ last.calls[1].data.linesAdded
              = (IF last.stdin.tool_name = "Write" THEN 1 ELSE 0)
       /\ last.calls[1].data.linesModified
              = (IF last.stdin.tool_name = "Edit" THEN 1 ELSE 0)
       /\ last.calls[1].data.language = ExpectedLanguage[last.stdin.file_path]

C11_Witness ==
    /\ AcceptedPostToolUse
    /\ last.stdin.tool_name = "Write"
    /\ last.stdin.file_path = <<"a", ".", "r", "s">>
    /\ last.calls[1].data.language = Some("rust")
    /\ last.calls[1].data.linesAdded = 1
    /\ last.calls[1].data.linesModified = 0

SendSucceeded == apiKey /\ last.net.status = "ok"

\* C13: a SessionStart whose send succeeds leaves a record for its session
\* ID with start time = now, also when the answer carries no identifier or
\* is an empty object, and then the record's remote ID is absent
C13_SuccessfulStartStoresRecord ==
    (LastIs("SessionStart") /\ SendSucceeded)
    => /\ last.stdin.session_id \in DOMAIN stateFile.sessions
       /\ stateFile.sessions[last.stdin.session_id].start_timestamp = Some(now)
       /\ ~IsSome(last.net.body.id)
          => stateFile.sessions[last.stdin.session_id].dashboard_id = None

FailedStart == LastIs("SessionStart") /\ ~SendSucceeded

\* the start time the state file holds for a session ID, if any
StoredStart(file, session_id) ==
    IF session_id \in DOMAIN file.sessions
    THEN file.sessions[session_id].start_timestamp ELSE None

\* C14: a SessionStart whose send fails (transport error, non-2xx answer, no
\* API key) leaves the state file as it was and does not save, and a Stop
\* for that session right after it filters the logs by the start time that
\* was stored before the failed start, or does not filter when none was
C14_FailedStartKeepsState ==
    [][/\ FailedStart' => (stateFile' = last'.before /\ ~last'.saved)
       /\ (FailedStart /\ LastIs("Stop")'
               /\ last'.stdin.session_id = last.stdin.session_id)
          => last'.tokens =
                 Some(AggregateFiles(FirstN(find_jsonl_files(logs'), ScanCap), 1,
                          ZeroAggregate,
                          StoredStart(last.before, last.stdin.session_id)))]_vars

C14_Witness ==
    /\ FailedStart
    /\ last.stdin.session_id \in DOMAIN last.before.sessions
    /\ stateFile.sessions[last.stdin.session_id]
           = last.before.sessions[last.stdin.session_id]
    /\ IsSome(stateFile.sessions[last.stdin.session_id].dashboard_id)
    /\ stateFile.sessions[last.stdin.session_id].start_timestamp # Some(now)

\* C16: an invocation whose input is not a JSON object, or whose event kind
\* is none of SessionStart, Stop and PostToolUse, makes no send, does not
\* write the state file and exits 0
C16_NoProcessing ==
    (\/ last.stdin.kind \in {"notjson", "nonobject"}
     \/ /\ last.stdin.kind = "object"
        /\ last.stdin.hook_event_name \notin {"SessionStart", "Stop", "PostToolUse"})
    => /\ last.calls = <<>>
       /\ last.attempts = 0
       /\ ~last.saved
       /\ stateFile = last.before
       /\ last.exit = 0

\* C17: a PostToolUse never changes the state file and never saves
C17_PostToolUseKeepsState ==
    LastIs("PostToolUse") => (stateFile = last.before /\ ~last.saved)

C17_Witness ==
    /\ AcceptedPostToolUse
    /\ Len(last.calls) = 1
    /\ last.stdin.session_id \in DOMAIN last.before.sessions
    /\ stateFile = last.before

\* the invocation took place in the situation of the last one, with no state
\* file at all
WithDefaultState ==
    main(last.stdin, MissingFile, apiKey, last.net, now, logs, "ok")

\* C15: whatever the state file holds (nothing, text that is not JSON, a
\* non-object document, a sessions field that is not a mapping), the
\* invocation exits, sends and scans as it does with the empty default state
C15_BadStateIsDefaultState ==
    (last.stdin.kind = "object" /\ last.before.kind # "object")
    => /\ last.exit = WithDefaultState.exit
       /\ last.calls = WithDefaultState.calls
       /\ last.attempts = WithDefaultState.attempts
       /\ last.tokens = WithDefaultState.tokens

\* the sends an invocation is meant to try: one for a SessionStart, a Stop
\* or an accepted PostToolUse when an API key is configured
ExpectedAttempts ==
    IF apiKey /\ (LastIs("SessionStart") \/ LastIs("Stop") \/ AcceptedPostToolUse)
    THEN 1 ELSE 0

\* C20: an invocation tries at most one outbound send and never retries:
\* exactly one for a SessionStart, a Stop or an accepted PostToolUse when an
\* API key is configured, none in every other case
C20_OneSendAttempt == last.attempts = ExpectedAttempts

C20_Witness ==
    /\ apiKey
    /\ LastIs("Stop")
    /\ last.net = NetError
    /\ last.attempts = 1

\* how many files of the directory were modified later than file i
NewerThan(i) == Cardinality({j \in 1..Len(logs) : logs[j].mtime > logs[i].mtime})

\* the file at place r of the recency order, 0 being the most recent
FileOfRank(r) == logs[CHOOSE i \in 1..Len(logs) : NewerThan(i) = r]

\* the number of files counted: min(5, n)
CountedFiles == IF Len(logs) < 5 THEN Len(logs) ELSE 5

\* what one file of the recency order adds to the aggregate
PerFileTotals(r) == parse_jsonl_for_tokens(FileOfRank(r), RecordedStart)

RECURSIVE SumOfRanks(_, _)
SumOfRanks(r, field) ==
    IF r >= CountedFiles THEN 0
    ELSE PerFileTotals(r)[field] + SumOfRanks(r + 1, field)

\* the places of the counted files whose totals name a model
RanksWithModel == {r \in 0..(CountedFiles - 1) : IsSome(PerFileTotals(r).model)}

LastModel ==
    IF RanksWithModel = {} THEN None
    ELSE PerFileTotals(CHOOSE r \in RanksWithModel :
                           \A q \in RanksWithModel : q <= r).model

\* C18: the aggregate of a Stop is the sum of the per-file totals of the
\* min(5, n) most recently modified log files, taken in recency order; a
\* sixth or later file adds nothing, and the model is the last non-empty
\* per-file model in that order
C18_FiveMostRecentFiles ==
    LastIs("Stop")
    => last.tokens =
           Some([input_tokens |-> SumOfRanks(0, "input_tokens"),
                 output_tokens |-> SumOfRanks(0, "output_tokens"),
                 cache_creation_tokens |-> SumOfRanks(0, "cache_creation_tokens"),
                 cache_read_tokens |-> SumOfRanks(0, "cache_read_tokens"),
                 model |-> LastModel])

C18_Witness ==
    /\ LastIs("Stop")
    /\ Len(logs) > 5
    /\ logs[1].mtime = 1
    /\ parse_jsonl_for_tokens(logs[1], RecordedStart).input_tokens > 0
    /\ IsSome(parse_jsonl_for_tokens(logs[1], RecordedStart).model)
    /\ Val(last.tokens).input_tokens = SumOfRanks(0, "input_tokens")
    /\ Val(last.tokens).model = Some("m1")
    /\ parse_jsonl_for_tokens(logs[1], RecordedStart).model = Some("m2")

BothDone == \A p \in Procs : inflight[p].pc = "done"

\* the invocations that saved, and the one whose save finished last
Writers == {p \in Procs : inflight[p].wrote > 0}

LastWriter ==
    CHOOSE p \in Writers : \A q \in Writers : inflight[q].wrote <= inflight[p].wrote

RecordOf(doc, s) == IF s \in DOMAIN doc.sessions THEN Some(doc.sessions[s]) ELSE None

\* C19: after two overlapping invocations have finished, the state file is
\* exactly the document of the one that saved last, so for every other
\* session ID it holds what that invocation had loaded: a record the other
\* one created is gone and a record the other one deleted is back
C19_LastWriterWins ==
    (BothDone /\ Writers # {})
    => /\ stateFile = inflight[LastWriter].doc
       /\ \A s \in Sids \ {inflight[LastWriter].stdin.session_id} :
              RecordOf(stateFile, s) = RecordOf(inflight[LastWriter].state, s)

====
